---- MODULE Spec2Model ----
(***************************************************************************)
(* A model of the PII span pipeline of ppmurmu/plivo-assignment:           *)
(*   src/src/dataset.py  PIIDataset.__init__ (character tags, token        *)
(*                       alignment) and collate_batch                      *)
(*   src/src/predict.py  validate_span, bio_to_spans and the filter loop   *)
(*                       of main                                           *)
(* Texts are sequences of one-character strings; a span is the tuple       *)
(* <<start, end, label>>; Python's None is the string "None".              *)
(***************************************************************************)
EXTENDS Integers, Sequences, FiniteSets, TLC

VARIABLES
    pc,             \* position of the running function
    text,           \* the utterance text (dataset.py:20, predict.py:110)
    offsets,        \* token offsets consumed so far, <<start, end>> each
    label_ids,      \* bio_to_spans: label ids consumed so far
    spans,          \* bio_to_spans: spans emitted so far
    current_label,  \* bio_to_spans: type of the open span, or None
    current_start,  \* bio_to_spans: start of the open span
    current_end,    \* bio_to_spans: end of the open span
    entities,       \* dataset: annotations consumed so far, <<start, end, label>>
    s,              \* dataset: start of the annotation of the last iteration
    e_idx,          \* dataset: end of the annotation of the last iteration
    lab,            \* dataset: label of the annotation of the last iteration
    char_tags,      \* dataset: one tag per character of text
    input_ids,      \* dataset: token ids consumed so far
    bio_tags,       \* dataset: one label id per token consumed so far
    raw_spans,      \* main: the decoded spans consumed so far by the filter loop
    e,              \* main: end of the span of the last iteration
    span_text,      \* main: text[s:e], the argument of validate_span
    accepted,       \* the value validate_span returned
    ents,           \* main: the entities kept so far
    batch,          \* collate_batch: the examples of the batch
    out,            \* collate_batch: the value returned
    lines,          \* the lines of the input file (dataset.py:14, predict.py:107)
    line_no,        \* the number of lines the loop has taken
    items,          \* dataset: the ids of self.items, in order
    results         \* main: the utterance ids that have an entry in results

decVars == <<label_ids, spans, current_label, current_start, current_end>>

dataVars == <<entities, s, e_idx, lab, char_tags, input_ids, bio_tags>>

predVars == <<raw_spans, e, span_text, accepted, ents>>

collVars == <<batch, out>>

lineVars == <<lines, line_no, items, results>>

vars == <<pc, text, offsets, decVars, dataVars, predVars, collVars, lineVars>>

None == "None"

----------------------------------------------------------------------------
(* Bounds of the model.                                                    *)

MaxTok == 3     \* tokens in a stream given to bio_to_spans
MaxText == 2    \* characters in a text given to PIIDataset
MaxEnt == 2     \* annotations of an utterance
MaxFrag == 2    \* fragments a text given to validate_span is made of
MaxSpans == 2   \* decoded spans given to the filter loop of main
MaxBatch == 2   \* examples in a batch given to collate_batch
MaxLen == 2     \* tokens of an example of a batch
MaxLines == 3   \* lines of an input file

----------------------------------------------------------------------------
(* The label vocabulary (module labels, imported by predict.py:7).         *)

TYPES == <<"CREDIT_CARD", "PHONE", "EMAIL", "PERSON_NAME", "DATE", "CITY">>

TypeSet == {TYPES[i] : i \in 1..Len(TYPES)}

\* "O" has id 0; type number k has B- at id 2k-1 and I- at id 2k.
ID2LABEL == [i \in 0..(2 * Len(TYPES)) |->
                IF i = 0 THEN "O"
                ELSE IF i % 2 = 1 THEN "B-" \o TYPES[(i + 1) \div 2]
                ELSE "I-" \o TYPES[i \div 2]]

LabelSet == {ID2LABEL[i] : i \in DOMAIN ID2LABEL}

\* ID2LABEL.get(int(lid), "O")
ID2LABEL_get(lid) == IF lid \in DOMAIN ID2LABEL THEN ID2LABEL[lid] ELSE "O"

\* label.split("-", 1) of a label of the vocabulary other than "O":
\* <<prefix, ent_type>>.
SplitLabel(label) ==
    CHOOSE p \in {"B", "I"} \X TypeSet : label = p[1] \o "-" \o p[2]

----------------------------------------------------------------------------
(* bio_to_spans (predict.py:42-79).  The locals of the function are the    *)
(* record [spans, current_label, current_start, current_end].              *)

DecInit == [spans |-> <<>>, current_label |-> None,
            current_start |-> None, current_end |-> None]

\* predict.py:49  the tokens the loop skips
IsSkipped(start, end) == start = 0 /\ end = 0

\* spans.append((current_start, current_end, current_label)) when a span is open
EmitOpen(st) ==
    IF st.current_label # None
    THEN Append(st.spans, <<st.current_start, st.current_end, st.current_label>>)
    ELSE st.spans

OnO_NoReset(st) == [st EXCEPT !.spans = EmitOpen(st)]

\* predict.py:53-57  label "O"
OnO(st) == [st EXCEPT !.spans = EmitOpen(st), !.current_label = None]

OnB_MergeSame(st, ent_type, start, end) ==
    IF st.current_label = ent_type
    THEN [st EXCEPT !.current_end = end]
    ELSE [spans |-> EmitOpen(st), current_label |-> ent_type,
          current_start |-> start, current_end |-> end]

\* predict.py:60-65  prefix "B"
OnB(st, ent_type, start, end) ==
    [spans |-> EmitOpen(st), current_label |-> ent_type,
     current_start |-> start, current_end |-> end]

OnI_AlwaysExtend(st, ent_type, start, end) ==
    IF st.current_label # None
    THEN [st EXCEPT !.current_end = end]
    ELSE [spans |-> st.spans, current_label |-> ent_type,
          current_start |-> start, current_end |-> end]

\* predict.py:66-74  prefix "I"
OnI(st, ent_type, start, end) ==
    IF st.current_label = ent_type
    THEN [st EXCEPT !.current_end = end]
    ELSE [spans |-> EmitOpen(st), current_label |-> ent_type,
          current_start |-> start, current_end |-> end]

\* predict.py:48-74  one iteration of the loop
LoopBody(st, start, end, lid) ==
    IF IsSkipped(start, end) THEN st
    ELSE LET label == ID2LABEL_get(lid) IN
         IF label = "O" THEN OnO(st)
         ELSE LET p == SplitLabel(label) IN
              IF p[1] = "B" THEN OnB(st, p[2], start, end)
              ELSE OnI(st, p[2], start, end)

\* predict.py:76-79  flush the open span and return
Flush(st) == EmitOpen(st)

Min(a, b) == IF a < b THEN a ELSE b

RECURSIVE DecodeFrom(_, _, _, _)
DecodeFrom(st, offs, lids, i) ==
    IF i > Min(Len(offs), Len(lids)) THEN st
    ELSE DecodeFrom(LoopBody(st, offs[i][1], offs[i][2], lids[i]), offs, lids, i + 1)

\* predict.py:42-79  the whole function; zip stops at the shorter list
bio_to_spans(offs, lids) == Flush(DecodeFrom(DecInit, offs, lids, 1))

----------------------------------------------------------------------------
(* validate_span (predict.py:10-40).                                       *)

UPPER == <<"A", "B", "C", "D", "E", "F", "G", "H", "I", "J", "K", "L", "M", "N", "O", "P", "Q", "R", "S", "T", "U", "V", "W", "X", "Y", "Z">>

LOWER == <<"a", "b", "c", "d", "e", "f", "g", "h", "i", "j", "k", "l", "m", "n", "o", "p", "q", "r", "s", "t", "u", "v", "w", "x", "y", "z">>

\* str.lower() on one character
LowerChar(c) ==
    IF \E i \in 1..Len(UPPER) : UPPER[i] = c
    THEN LOWER[CHOOSE i \in 1..Len(UPPER) : UPPER[i] = c]
    ELSE c

\* predict.py:15  text.lower()
Lower(txt) == [i \in 1..Len(txt) |-> LowerChar(txt[i])]

\* \d
IsDigit(c) == c \in {"0", "1", "2", "3", "4", "5", "6", "7", "8", "9"}

MatchesAt(txt, i, w) ==
    i + Len(w) - 1 <= Len(txt) /\ SubSeq(txt, i, i + Len(w) - 1) = w

\* w in txt
Contains(txt, w) == \E i \in 1..Len(txt) : MatchesAt(txt, i, w)

\* The alternatives of the regular expressions beside \d.
DigitWords == {<<"o", "n", "e">>,
               <<"t", "w", "o">>,
               <<"t", "h", "r", "e", "e">>,
               <<"f", "o", "u", "r">>,
               <<"f", "i", "v", "e">>,
               <<"s", "i", "x">>,
               <<"s", "e", "v", "e", "n">>,
               <<"e", "i", "g", "h", "t">>,
               <<"n", "i", "n", "e">>,
               <<"z", "e", "r", "o">>}

PlusWord == <<"p", "l", "u", "s">>

\* re.search(r'\d|w1|w2|...', txt)
ReSearch(ws, txt) ==
    \E i \in 1..Len(txt) : IsDigit(txt[i]) \/ \E w \in ws : MatchesAt(txt, i, w)

validate_span_NoLower(txt, label) ==
    IF label = "PHONE" THEN ReSearch(DigitWords \cup {PlusWord}, txt)
    ELSE IF label = "EMAIL"
         THEN \/ Contains(txt, <<" ", "a", "t", " ">>)
              \/ Contains(txt, <<"@">>)
              \/ Contains(txt, <<" ", "d", "o", "t", " ">>)
    ELSE IF label = "CREDIT_CARD" THEN ReSearch(DigitWords, txt)
    ELSE TRUE

\* predict.py:10-40
validate_span(txt, label) ==
    LET low == Lower(txt) IN
    IF label = "PHONE" THEN ReSearch(DigitWords \cup {PlusWord}, low)
    ELSE IF label = "EMAIL"
         THEN \/ Contains(low, <<" ", "a", "t", " ">>)
              \/ Contains(low, <<"@">>)
              \/ Contains(low, <<" ", "d", "o", "t", " ">>)
    ELSE IF label = "CREDIT_CARD" THEN ReSearch(DigitWords, low)
    ELSE IF label = "DATE" THEN TRUE
    ELSE TRUE

\* label_is_pii of the module labels (predict.py:7)
label_is_pii(label) ==
    label \in {"CREDIT_CARD", "PHONE", "EMAIL", "PERSON_NAME", "DATE"}

----------------------------------------------------------------------------
(* The decoder as a state machine: the loop of bio_to_spans consumes one   *)
(* (offset, label id) pair per step; offsets and label_ids hold the pairs  *)
(* consumed so far.                                                        *)

IdOf(label) == CHOOSE i \in DOMAIN ID2LABEL : ID2LABEL[i] = label

\* An id outside the vocabulary (the ignore sentinel of dataset.py:56).
IGNORE == -100

\* The token offsets a stream is drawn from: the structural <<0, 0>>, a
\* zero-width token inside the text, adjacent and overlapping tokens, and
\* the two offsets of the example of the leniency policy.
DecOffsets == {<<0, 0>>, <<0, 1>>, <<1, 1>>, <<1, 2>>, <<0, 3>>, <<4, 6>>}

DecIds == {IdOf("O"), IdOf("B-PHONE"), IdOf("I-PHONE"), IdOf("B-EMAIL"),
           IdOf("I-EMAIL"), IGNORE}

Locals == [spans |-> spans, current_label |-> current_label,
           current_start |-> current_start, current_end |-> current_end]

SetLocals(st) ==
    /\ spans' = st.spans
    /\ current_label' = st.current_label
    /\ current_start' = st.current_start
    /\ current_end' = st.current_end

\* The variables of the loops over the input lines while a function runs
\* on its own.
LinesIdle == lines = <<>> /\ line_no = 0 /\ items = <<>> /\ results = {}

\* The variables of collate_batch while another function runs.
CollIdle == batch = <<>> /\ out = None

\* The variables of PIIDataset.__init__ while another function runs.
DataIdle ==
    /\ entities = <<>>
    /\ s = None
    /\ e_idx = None
    /\ lab = None
    /\ char_tags = <<>>
    /\ input_ids = <<>>
    /\ bio_tags = <<>>

\* The variables of the filter loop of main while another function runs.
PredIdle ==
    /\ raw_spans = <<>>
    /\ e = None
    /\ span_text = <<>>
    /\ accepted = None
    /\ ents = <<>>

DecodeInit ==
    /\ pc = "loop"
    /\ text = <<>>
    /\ offsets = <<>>
    /\ DataIdle
    /\ PredIdle
    /\ label_ids = <<>>
    /\ spans = DecInit.spans
    /\ current_label = DecInit.current_label
    /\ current_start = DecInit.current_start
    /\ current_end = DecInit.current_end
    /\ CollIdle
    /\ LinesIdle

\* predict.py:48-74
DecodeToken ==
    /\ pc = "loop"
    /\ Len(offsets) < MaxTok
    /\ \E o \in DecOffsets, lid \in DecIds :
        /\ offsets' = Append(offsets, o)
        /\ label_ids' = Append(label_ids, lid)
        /\ SetLocals(LoopBody(Locals, o[1], o[2], lid))
    /\ UNCHANGED <<lineVars, collVars, pc, text, dataVars, predVars>>

\* predict.py:76-79
DecodeReturn ==
    /\ pc = "loop"
    /\ pc' = "returned"
    /\ spans' = Flush(Locals)
    /\ UNCHANGED <<lineVars, collVars, text, offsets, label_ids, current_label, current_start,
                   current_end, dataVars, predVars>>

DecodeNext == DecodeToken \/ DecodeReturn

SpecDecode == DecodeInit /\ [][DecodeNext]_vars

----------------------------------------------------------------------------
(* Claims about bio_to_spans, checked under SpecDecode.                    *)

NonOverlapSorted(sp) ==
    \A i \in 1..(Len(sp) - 1) :
        sp[i][2] <= sp[i + 1][1] /\ sp[i][1] <= sp[i + 1][1]

\* The tokens the loop does not skip, in stream order.
Kept(offs) == SelectSeq(offs, LAMBDA o : ~(o[1] = 0 /\ o[2] = 0))

\* Each token starts at or after the end of the token before it.
Ascending(offs) ==
    \A i \in 1..(Len(offs) - 1) : offs[i][2] <= offs[i + 1][1]

\* C1 as stated: for ANY sequence of (offset, label id) pairs the returned
\* spans are pairwise non-overlapping and sorted ascending by start.
C1_AnySequenceSorted == pc = "returned" => NonOverlapSorted(spans)

\* C1, amended: when the offsets of the tokens that are not (0,0) are
\* ascending (each token starts at or after the end of the one before it),
\* the returned spans are pairwise non-overlapping and sorted by start.
C1_AscendingSorted ==
    (pc = "returned" /\ Ascending(Kept(offsets))) => NonOverlapSorted(spans)

C1_Witness ==
    pc = "returned" /\ Ascending(Kept(offsets)) /\ Len(spans) >= 2

LastOffset == offsets'[Len(offsets')]

LastLabel == ID2LABEL_get(label_ids'[Len(label_ids')])

\* A step of the loop that consumed a non-skipped token labelled I-T while
\* no span of type T was open.
LenientStep(T) ==
    /\ Len(offsets') = Len(offsets) + 1
    /\ ~(LastOffset[1] = 0 /\ LastOffset[2] = 0)
    /\ LastLabel = "I-" \o T
    /\ current_label # T

\* C3: an I-T token seen while Idle or while a span of another type is
\* open is handled exactly as B-T: the open span (if any) is emitted and a
\* span of type T is opened at the token's offsets; and the stream
\* [(0,3,I-PHONE), (4,6,I-PHONE)] decodes to exactly [(0,6,PHONE)].
C3_Leniency ==
    /\ [][\A T \in TypeSet : LenientStep(T) =>
            /\ spans' = (IF current_label = None THEN spans
                         ELSE Append(spans, <<current_start, current_end,
                                              current_label>>))
            /\ current_label' = T
            /\ current_start' = LastOffset[1]
            /\ current_end' = LastOffset[2]]_vars
    /\ []((/\ pc = "returned"
           /\ offsets = <<(<<0, 3>>), (<<4, 6>>)>>
           /\ label_ids = <<IdOf("I-PHONE"), IdOf("I-PHONE")>>)
          => spans = <<(<<0, 6, "PHONE">>)>>)

\* A span of type PHONE is open when an I-EMAIL token arrives: the PHONE
\* span has been emitted and an EMAIL span is open.
C3_Witness ==
    /\ pc = "loop"
    /\ Len(label_ids) = 2
    /\ label_ids = <<IdOf("B-PHONE"), IdOf("I-EMAIL")>>
    /\ offsets = <<(<<0, 1>>), (<<1, 2>>)>>
    /\ spans = <<(<<0, 1, "PHONE">>)>>
    /\ current_label = "EMAIL"

RemoveAt(seq, i) == SubSeq(seq, 1, i - 1) \o SubSeq(seq, i + 1, Len(seq))

\* C4 as stated: a token with a zero-width offset (k,k), for every k and at
\* every position, is skipped whatever its label: the output equals the
\* output for the stream with that token removed.
C4_ZeroWidthSkipped ==
    pc = "returned" =>
        \A i \in 1..Len(offsets) :
            offsets[i][1] = offsets[i][2] =>
                spans = bio_to_spans(RemoveAt(offsets, i), RemoveAt(label_ids, i))

----------------------------------------------------------------------------
(* PIIDataset.__init__ (dataset.py:14-73), the work done for one line.     *)

\* label_list is the vocabulary; label2id.get(tag_str, label2id["O"])
label2id_get(tag_str) ==
    IF tag_str \in LabelSet THEN IdOf(tag_str) ELSE IdOf("O")

\* A text of n characters; tagging and alignment read only its length.
TextOfLen(n) == [i \in 1..n |-> "x"]

BadIndices_EmptyAllowed(s0, e0, n) == s0 < 0 \/ e0 > n \/ s0 > e0

\* dataset.py:28  the safety check for bad indices
BadIndices(s0, e0, n) == s0 < 0 \/ e0 > n \/ s0 >= e0

ApplyEntity_KeepExisting(tags, s0, e0, l0) ==
    IF BadIndices(s0, e0, Len(tags)) THEN tags
    ELSE [i \in 1..Len(tags) |->
            IF tags[i] # "O" THEN tags[i]
            ELSE IF i = s0 + 1 THEN "B-" \o l0
            ELSE IF s0 + 1 < i /\ i <= e0 THEN "I-" \o l0
            ELSE tags[i]]

\* dataset.py:26-32  one iteration of the loop over entities; character
\* position p is index p + 1 of the sequence.
ApplyEntity(tags, s0, e0, l0) ==
    IF BadIndices(s0, e0, Len(tags)) THEN tags
    ELSE [i \in 1..Len(tags) |->
            IF i = s0 + 1 THEN "B-" \o l0
            ELSE IF s0 + 1 < i /\ i <= e0 THEN "I-" \o l0
            ELSE tags[i]]

\* The ids of the tokenizer's structural tokens (tokenizer.cls_token_id,
\* sep_token_id, pad_token_id) and the id of an ordinary word piece.
CLS_ID == 101
SEP_ID == 102
PAD_ID == 0
WORD_ID == 2000

IsSpecialToken_OnlyZeroZero(start, end, tok_id) ==
    (start = 0 /\ end = 0) \/ tok_id \in {CLS_ID, SEP_ID, PAD_ID}

\* dataset.py:54
IsSpecialToken(start, end, tok_id) ==
    start = end \/ tok_id \in {CLS_ID, SEP_ID, PAD_ID}

TagOfToken_LastChar(tags, start, end) ==
    IF start < Len(tags)
    THEN label2id_get(tags[IF end <= Len(tags) THEN end ELSE Len(tags)])
    ELSE IdOf("O")

\* dataset.py:57-62  the label of a token that is not special
TagOfToken(tags, start, end) ==
    IF start < Len(tags) THEN label2id_get(tags[start + 1]) ELSE IdOf("O")

\* dataset.py:54-62  the entry appended to bio_tags for one token
AlignLabel(tags, start, end, tok_id) ==
    IF IsSpecialToken(start, end, tok_id) THEN IGNORE
    ELSE TagOfToken(tags, start, end)

\* The labels of the drawn annotations: two of the vocabulary and one that
\* is not in it.
AnnLabels == {"PHONE", "EMAIL", "ZIP"}

\* The tokens the tokenizer may return, <<start, end, id>>: structural
\* tokens at (0,0), word pieces, a zero-width token inside the text, and a
\* piece of the text that carries the separator id.
AlignTokens == {<<0, 0, CLS_ID>>, <<0, 0, PAD_ID>>, <<0, 1, WORD_ID>>,
                <<1, 2, WORD_ID>>, <<0, 2, WORD_ID>>, <<2, 3, WORD_ID>>,
                <<1, 1, WORD_ID>>, <<1, 2, SEP_ID>>}

DecIdle ==
    /\ label_ids = <<>>
    /\ spans = DecInit.spans
    /\ current_label = DecInit.current_label
    /\ current_start = DecInit.current_start
    /\ current_end = DecInit.current_end

\* dataset.py:20-24  a line has been read and char_tags initialised
DatasetInit ==
    /\ pc = "tag"
    /\ text \in {TextOfLen(n) : n \in 0..MaxText}
    /\ char_tags = [i \in 1..Len(text) |-> "O"]
    /\ entities = <<>>
    /\ s = None
    /\ e_idx = None
    /\ lab = None
    /\ offsets = <<>>
    /\ input_ids = <<>>
    /\ bio_tags = <<>>
    /\ DecIdle
    /\ PredIdle
    /\ CollIdle
    /\ LinesIdle

\* dataset.py:25-32  one iteration of the loop over at most `limit`
\* annotations with labels in `labels`
TagEntityFrom(labels, limit) ==
    /\ pc = "tag"
    /\ Len(entities) < limit
    /\ \E s0 \in (-1)..(MaxText + 1), e0 \in (-1)..(MaxText + 1), l0 \in labels :
        /\ entities' = Append(entities, <<s0, e0, l0>>)
        /\ s' = s0
        /\ e_idx' = e0
        /\ lab' = l0
        /\ char_tags' = ApplyEntity(char_tags, s0, e0, l0)
    /\ UNCHANGED <<lineVars, collVars, pc, text, offsets, input_ids, bio_tags, decVars, predVars>>

TagEntity == TagEntityFrom({"PHONE", "EMAIL"}, MaxEnt)

TagNext == TagEntity

\* The loop over the annotations of an utterance.
SpecTag == DatasetInit /\ [][TagNext]_vars

TagOneEntity == TagEntityFrom(AnnLabels, 1)

\* dataset.py:35-46  the tokenizer is called; its tokens are consumed one
\* per step of the alignment loop
Tokenize ==
    /\ pc = "tag"
    /\ pc' = "align"
    /\ UNCHANGED <<lineVars, collVars, text, offsets, decVars, dataVars, predVars>>

\* End of the last token that is not at (0,0), 0 when there is none.
LastEnd(offs) ==
    LET k == Kept(offs) IN IF k = <<>> THEN 0 ELSE k[Len(k)][2]

\* dataset.py:50-62  one iteration of the alignment loop.  The tokenizer
\* returns the tokens of the text in text order.
AlignToken ==
    /\ pc = "align"
    /\ Len(offsets) < MaxTok
    /\ \E tok \in AlignTokens :
        /\ (tok[1] = 0 /\ tok[2] = 0) \/ tok[1] >= LastEnd(offsets)
        /\ offsets' = Append(offsets, <<tok[1], tok[2]>>)
        /\ input_ids' = Append(input_ids, tok[3])
        /\ bio_tags' = Append(bio_tags, AlignLabel(char_tags, tok[1], tok[2], tok[3]))
    /\ UNCHANGED <<lineVars, collVars, pc, text, entities, s, e_idx, lab, char_tags, decVars,
                   predVars>>

\* dataset.py:64-73  the item is appended
AppendItem ==
    /\ pc = "align"
    /\ pc' = "item"
    /\ UNCHANGED <<lineVars, collVars, text, offsets, decVars, dataVars, predVars>>

\* The round trip: the gold labels of the item and its offsets are given to
\* bio_to_spans (predict.py:42-79).
DecodeGold ==
    /\ pc = "item"
    /\ pc' = "decoded"
    /\ label_ids' = bio_tags
    /\ spans' = bio_to_spans(offsets, bio_tags)
    /\ UNCHANGED <<lineVars, collVars, text, offsets, current_label, current_start, current_end,
                   dataVars, predVars>>

DatasetNext == TagOneEntity \/ Tokenize \/ AlignToken \/ AppendItem \/ DecodeGold

\* The construction of one item from a line with at most one annotation,
\* followed by the round trip through the decoder.
SpecDataset == DatasetInit /\ [][DatasetNext]_vars

----------------------------------------------------------------------------
(* Claims about PIIDataset.__init__.                                       *)

SpecialIds == {CLS_ID, SEP_ID, PAD_ID}

\* An annotation the claims call valid: 0 <= start < end <= len(text).
ValidAnn(a) == 0 <= a[1] /\ a[1] < a[2] /\ a[2] <= Len(text)

\* A token of the text: not zero-width and not carrying a structural id.
TextToken(i) == offsets[i][1] < offsets[i][2] /\ input_ids[i] \notin SpecialIds

\* C2 as stated (checked under SpecDataset): with one valid annotation
\* (s, e, label) whose label is in the vocabulary and a token stream in
\* which some token of the text starts at s and some token of the text ends
\* at e, the gold labels of the item decode to exactly the span (s, e, label).
C2_RoundTrip ==
    (/\ pc = "decoded"
     /\ Len(entities) = 1
     /\ ValidAnn(entities[1])
     /\ "B-" \o entities[1][3] \in LabelSet
     /\ \E i \in 1..Len(offsets) : TextToken(i) /\ offsets[i][1] = entities[1][1]
     /\ \E j \in 1..Len(offsets) : TextToken(j) /\ offsets[j][2] = entities[1][2])
    => spans = <<entities[1]>>

\* C5 (checked under SpecDataset): bio_tags has one entry per token
\* consumed, in stream order, and every token with a zero-width offset has
\* the ignore sentinel -100, wherever it is and whatever the character tags.
C5_OnePerTokenZeroWidthIgnored ==
    /\ Len(bio_tags) = Len(offsets)
    /\ Len(bio_tags) = Len(input_ids)
    /\ \A i \in 1..Len(offsets) :
          offsets[i][1] = offsets[i][2] => bio_tags[i] = -100

\* A zero-width token inside the text, after a labelled word piece, and a
\* structural token at the end of the stream.
C5_Witness ==
    /\ pc = "item"
    /\ offsets = <<(<<0, 1>>), (<<1, 1>>), (<<0, 0>>)>>
    /\ char_tags = <<"B-PHONE", "I-PHONE">>
    /\ bio_tags = <<IdOf("B-PHONE"), -100, -100>>

\* The id the first-character policy gives a token that starts at `start`.
FirstCharId(start) ==
    IF start < Len(text)
    THEN (IF char_tags[start + 1] \in LabelSet THEN IdOf(char_tags[start + 1])
          ELSE IdOf("O"))
    ELSE IdOf("O")

\* C6 as stated (checked under SpecDataset): every token with start < end
\* gets the id of CharTagArray[start] when start < len(text), the id of O
\* when start >= len(text) or the tag is not in the vocabulary, and never the
\* ignore sentinel.
C6_FirstCharEveryTextToken ==
    \A i \in 1..Len(bio_tags) :
        offsets[i][1] < offsets[i][2] =>
            bio_tags[i] = FirstCharId(offsets[i][1]) /\ bio_tags[i] # -100

\* C6, amended: every token with start < end whose id is not the
\* tokenizer's cls, sep or pad id gets the id of CharTagArray[start] when
\* start < len(text) and the id of O when start >= len(text) or the tag is not
\* in the vocabulary; a token with start < end whose id is one of those three
\* gets the ignore sentinel.
C6_FirstCharWins ==
    \A i \in 1..Len(bio_tags) :
        offsets[i][1] < offsets[i][2] =>
            IF input_ids[i] \in SpecialIds THEN bio_tags[i] = -100
            ELSE bio_tags[i] = FirstCharId(offsets[i][1]) /\ bio_tags[i] # -100

\* A token that starts inside the annotation but not at its start, and a
\* token that starts at the end of the text.
C6_Witness ==
    /\ pc = "item"
    /\ Len(text) = 2
    /\ char_tags = <<"O", "B-PHONE">>
    /\ offsets = <<(<<0, 1>>), (<<1, 2>>), (<<2, 3>>)>>
    /\ input_ids = <<WORD_ID, WORD_ID, WORD_ID>>
    /\ bio_tags = <<IdOf("O"), IdOf("B-PHONE"), IdOf("O")>>

\* The annotations the boundary claim names.
Degenerate(s0, e0, n) == s0 = e0 \/ s0 > e0 \/ s0 < 0 \/ e0 > n

\* C7 (checked under SpecTag): an annotation with start == end,
\* start > end, start < 0 or end > len(text) leaves char_tags as they were,
\* and when every annotation so far is of that kind all tags are O.
C7_DegenerateSkipped ==
    /\ [][(Len(entities') = Len(entities) + 1 /\ Degenerate(s', e_idx', Len(text)))
            => char_tags' = char_tags]_vars
    /\ []((\A k \in 1..Len(entities) :
              Degenerate(entities[k][1], entities[k][2], Len(text)))
          => \A i \in 1..Len(char_tags) : char_tags[i] = "O")

\* A valid annotation followed by an empty one at a position inside the
\* text: the tags of the first are still there.
C7_Witness ==
    /\ Len(entities) = 2
    /\ entities[1] = <<0, 2, "PHONE">>
    /\ s = 1 /\ e_idx = 1
    /\ char_tags = <<"B-PHONE", "I-PHONE">>

----------------------------------------------------------------------------
(* validate_span called on its own (predict.py:136): span_text and lab are *)
(* its arguments, accepted its result.                                     *)

\* The pieces the texts given to validate_span are made of.
Fragments == {<<"o", "n", "e">>,
              <<"O", "N", "E">>,
              <<"t", "w", "o">>,
              <<"t", "h", "r", "e", "e">>,
              <<"f", "o", "u", "r">>,
              <<"f", "i", "v", "e">>,
              <<"s", "i", "x">>,
              <<"s", "e", "v", "e", "n">>,
              <<"e", "i", "g", "h", "t">>,
              <<"n", "i", "n", "e">>,
              <<"z", "e", "r", "o">>,
              <<"p", "l", "u", "s">>,
              <<"P", "l", "u", "s">>,
              <<"7">>,
              <<"@">>,
              <<" ", "a", "t", " ">>,
              <<" ", "A", "T", " ">>,
              <<" ", "d", "o", "t", " ">>,
              <<"a", "t">>,
              <<"d", "o", "t">>,
              <<" ">>,
              <<"o", "n">>,
              <<"x">>}

\* The two texts of the acceptance examples.
ExampleTexts == {<<"f", "o", "u", "r", " ", "t", "w", "o", " ", "f", "o", "u", "r", " ", "t", "w", "o">>,
                 <<"j", "o", "h", "n", " ", "s", "m", "i", "t", "h">>}

RECURSIVE TextsOf(_)
TextsOf(k) ==
    IF k = 0 THEN {<<>>}
    ELSE TextsOf(k - 1) \cup {t \o f : t \in TextsOf(k - 1), f \in Fragments}

ValidateInit ==
    /\ pc = "call"
    /\ span_text \in TextsOf(MaxFrag) \cup ExampleTexts
    /\ lab \in TypeSet
    /\ accepted = None
    /\ text = <<>>
    /\ offsets = <<>>
    /\ entities = <<>> /\ s = None /\ e_idx = None /\ char_tags = <<>>
    /\ input_ids = <<>> /\ bio_tags = <<>>
    /\ raw_spans = <<>> /\ e = None /\ ents = <<>>
    /\ DecIdle
    /\ CollIdle
    /\ LinesIdle

\* predict.py:10-40
CallValidateSpan ==
    /\ pc = "call"
    /\ pc' = "validated"
    /\ accepted' = validate_span(span_text, lab)
    /\ UNCHANGED <<lineVars, collVars, text, offsets, decVars, dataVars, raw_spans, e, span_text, ents>>

ValidateNext == CallValidateSpan

SpecValidate == ValidateInit /\ [][ValidateNext]_vars

----------------------------------------------------------------------------
(* The filter loop of main (predict.py:129-145) for one utterance.         *)

\* text[a:b] for 0 <= a
Slice(txt, a, b) == SubSeq(txt, a + 1, IF b <= Len(txt) THEN b ELSE Len(txt))

Entity(s0, e0, l0) ==
    [start |-> s0, end |-> e0, label |-> l0, pii |-> label_is_pii(l0)]

KeepIf_Downgrade(kept, ok, s0, e0, l0) ==
    IF ok THEN Append(kept, Entity(s0, e0, l0))
    ELSE Append(kept, [start |-> s0, end |-> e0, label |-> l0, pii |-> FALSE])

\* predict.py:136-144  the span is appended only when it passes validation
KeepIf(kept, ok, s0, e0, l0) ==
    IF ok THEN Append(kept, Entity(s0, e0, l0)) ELSE kept

FilterTexts == {<<"7", " ", "x">>, <<"o", "n", "e", "@">>}

FilterLabels == {"PHONE", "EMAIL", "CITY"}

\* predict.py:129-132  bio_to_spans has returned, ents is empty
FilterInit ==
    /\ pc = "filter"
    /\ text \in FilterTexts
    /\ raw_spans = <<>>
    /\ ents = <<>>
    /\ s = None /\ e = None /\ lab = None
    /\ span_text = <<>>
    /\ accepted = None
    /\ offsets = <<>>
    /\ entities = <<>> /\ e_idx = None /\ char_tags = <<>>
    /\ input_ids = <<>> /\ bio_tags = <<>>
    /\ DecIdle
    /\ CollIdle
    /\ LinesIdle

\* predict.py:133-144  one iteration of the loop over raw_spans
FilterSpan ==
    /\ pc = "filter"
    /\ Len(raw_spans) < MaxSpans
    /\ \E s0 \in 0..Len(text), e0 \in 0..Len(text), l0 \in FilterLabels :
        /\ s0 <= e0
        /\ raw_spans' = Append(raw_spans, <<s0, e0, l0>>)
        /\ s' = s0 /\ e' = e0 /\ lab' = l0
        /\ span_text' = Slice(text, s0, e0)
        /\ accepted' = validate_span(Slice(text, s0, e0), l0)
        /\ ents' = KeepIf(ents, validate_span(Slice(text, s0, e0), l0), s0, e0, l0)
    /\ UNCHANGED <<lineVars, collVars, pc, text, offsets, decVars, entities, e_idx, char_tags,
                   input_ids, bio_tags>>

\* predict.py:145  results[uid] = ents
StoreResult ==
    /\ pc = "filter"
    /\ pc' = "stored"
    /\ UNCHANGED <<lineVars, collVars, text, offsets, decVars, dataVars, predVars>>

FilterNext == FilterSpan \/ StoreResult

SpecFilter == FilterInit /\ [][FilterNext]_vars

----------------------------------------------------------------------------
(* collate_batch (dataset.py:83-110).  An example is the record            *)
(* [input_ids, attention_mask, labels]; the fields id, text and            *)
(* offset_mapping pass through unchanged and are left out.                 *)

Pad_Left(seq, pad_value, max_len) ==
    [i \in 1..(max_len - Len(seq)) |-> pad_value] \o seq

\* dataset.py:95-96  seq + [pad_value] * (max_len - len(seq))
Pad(seq, pad_value, max_len) ==
    seq \o [i \in 1..(max_len - Len(seq)) |-> pad_value]

SetMax(S) == CHOOSE m \in S : \A x \in S : x <= m

\* dataset.py:83-110
collate_batch(b, pad_token_id, label_pad_id) ==
    LET max_len == SetMax({Len(b[i].input_ids) : i \in 1..Len(b)}) IN
    [input_ids |-> [i \in 1..Len(b) |-> Pad(b[i].input_ids, pad_token_id, max_len)],
     attention_mask |-> [i \in 1..Len(b) |-> Pad(b[i].attention_mask, 0, max_len)],
     labels |-> [i \in 1..Len(b) |-> Pad(b[i].labels, label_pad_id, max_len)]]

RECURSIVE SeqsOf(_, _)
SeqsOf(S, n) ==
    IF n = 0 THEN {<<>>}
    ELSE {Append(q, x) : q \in SeqsOf(S, n - 1), x \in S}

\* The items PIIDataset builds (padding="max_length", dataset.py:39): k
\* tokens with mask 1 and a label id, then pad tokens with mask 0 and the
\* label -100; the three lists have one entry per token.
Examples ==
    UNION {{[input_ids |-> [i \in 1..n |-> IF i <= Len(l) THEN WORD_ID ELSE PAD_ID],
             attention_mask |-> [i \in 1..n |-> IF i <= Len(l) THEN 1 ELSE 0],
             labels |-> [i \in 1..n |-> IF i <= Len(l) THEN l[i] ELSE -100]] :
                l \in UNION {SeqsOf({0, 3}, k) : k \in 0..n}} : n \in 0..MaxLen}

RECURSIVE BatchesOf(_)
BatchesOf(k) ==
    IF k = 1 THEN {<<x>> : x \in Examples}
    ELSE BatchesOf(k - 1) \cup {Append(b, x) : b \in BatchesOf(k - 1), x \in Examples}

\* A non-empty batch has been drawn by the loader.
CollateInit ==
    /\ pc = "batch"
    /\ batch \in BatchesOf(MaxBatch)
    /\ out = None
    /\ text = <<>>
    /\ offsets = <<>>
    /\ DataIdle
    /\ PredIdle
    /\ DecIdle
    /\ LinesIdle

\* dataset.py:83-110 with the default label_pad_id
Collate ==
    /\ pc = "batch"
    /\ pc' = "collated"
    /\ out' = collate_batch(batch, PAD_ID, -100)
    /\ UNCHANGED <<lineVars, batch, text, offsets, decVars, dataVars, predVars>>

CollateNext == Collate

SpecCollate == CollateInit /\ [][CollateNext]_vars

\* seq starts with orig and continues with pad_value only, n entries in all.
PaddedTo(seq, orig, pad_value, n) ==
    /\ Len(seq) = n
    /\ Len(orig) <= n
    /\ \A j \in 1..n : seq[j] = (IF j <= Len(orig) THEN orig[j] ELSE pad_value)

\* C10 (checked under SpecCollate): for every example of a non-empty batch
\* the returned input_ids, attention_mask and labels have length max(len)
\* over the batch, start with the example's own sequence and continue only
\* with the pad token id, 0 and -100.
C10_RightPadded ==
    pc = "collated" =>
        LET longest == CHOOSE i \in 1..Len(batch) :
                           \A k \in 1..Len(batch) :
                               Len(batch[k].input_ids) <= Len(batch[i].input_ids)
            n == Len(batch[longest].input_ids)
        IN \A i \in 1..Len(batch) :
              /\ PaddedTo(out.input_ids[i], batch[i].input_ids, PAD_ID, n)
              /\ PaddedTo(out.attention_mask[i], batch[i].attention_mask, 0, n)
              /\ PaddedTo(out.labels[i], batch[i].labels, -100, n)

\* A batch of a one-token and a two-token example.
C10_Witness ==
    /\ pc = "collated"
    /\ Len(batch) = 2
    /\ batch[1].input_ids = <<WORD_ID>>
    /\ batch[2].input_ids = <<WORD_ID, WORD_ID>>
    /\ out.input_ids[1] = <<WORD_ID, PAD_ID>>
    /\ out.attention_mask[1] = <<1, 0>>
    /\ batch[1].labels = <<3>>
    /\ out.labels[1] = <<3, -100>>

----------------------------------------------------------------------------
(* Claims about the span validator.                                        *)

\* <<start, end, label>> of the kept entities, in order.
Kept3(es) == [i \in 1..Len(es) |-> <<es[i].start, es[i].end, es[i].label>>]

RECURSIVE IsSubseq(_, _)
IsSubseq(a, b) ==
    IF a = <<>> THEN TRUE
    ELSE IF b = <<>> THEN FALSE
    ELSE IF Head(a) = Head(b) THEN IsSubseq(Tail(a), Tail(b))
    ELSE IsSubseq(a, Tail(b))

\* C8 (checked under SpecFilter): the emitted list is an order-preserving
\* subsequence of the decoded spans with start, end and label unchanged, and
\* a span that fails its label's plausibility test is not in it.
C8_StrictFilter ==
    /\ IsSubseq(Kept3(ents), raw_spans)
    /\ \A k \in 1..Len(raw_spans) :
          ~validate_span(Slice(text, raw_spans[k][1], raw_spans[k][2]), raw_spans[k][3])
          => \A m \in 1..Len(ents) : Kept3(ents)[m] # raw_spans[k]

\* A rejected span between two accepted ones of the text "7 x".
C8_Witness ==
    /\ pc = "stored"
    /\ raw_spans = <<(<<2, 3, "PHONE">>), (<<0, 1, "PHONE">>)>>
    /\ Kept3(ents) = <<(<<0, 1, "PHONE">>)>>

\* txt has a substring that, lower-cased, is w.
HasCI(txt, w) ==
    \E i \in 1..(Len(txt) - Len(w) + 1) :
        Lower(SubSeq(txt, i, i + Len(w) - 1)) = w

HasDigitChar(txt) == \E i \in 1..Len(txt) : IsDigit(txt[i])

SpelledDigits == {<<"o", "n", "e">>,
                  <<"t", "w", "o">>,
                  <<"t", "h", "r", "e", "e">>,
                  <<"f", "o", "u", "r">>,
                  <<"f", "i", "v", "e">>,
                  <<"s", "i", "x">>,
                  <<"s", "e", "v", "e", "n">>,
                  <<"e", "i", "g", "h", "t">>,
                  <<"n", "i", "n", "e">>,
                  <<"z", "e", "r", "o">>}

\* The acceptance table of the validator.
AcceptTable(txt, label) ==
    CASE label = "PHONE" ->
            \/ HasDigitChar(txt)
            \/ \E w \in SpelledDigits : HasCI(txt, w)
            \/ HasCI(txt, <<"p", "l", "u", "s">>)
      [] label = "CREDIT_CARD" ->
            HasDigitChar(txt) \/ \E w \in SpelledDigits : HasCI(txt, w)
      [] label = "EMAIL" ->
            HasCI(txt, <<"@">>) \/ HasCI(txt, <<" ", "a", "t", " ">>) \/ HasCI(txt, <<" ", "d", "o", "t", " ">>)
      [] OTHER -> TRUE

\* C9 (checked under SpecValidate): the decision of validate_span is the
\* acceptance table, case-insensitively on the substring; "four two four two"
\* as CREDIT_CARD is accepted and "john smith" as PHONE is rejected.
C9_AcceptanceTable ==
    pc = "validated" =>
        /\ accepted = AcceptTable(span_text, lab)
        /\ (span_text = <<"f", "o", "u", "r", " ", "t", "w", "o", " ", "f", "o", "u", "r", " ", "t", "w", "o">> /\ lab = "CREDIT_CARD") => accepted = TRUE
        /\ (span_text = <<"j", "o", "h", "n", " ", "s", "m", "i", "t", "h">> /\ lab = "PHONE") => accepted = FALSE

\* An upper-case digit word as PHONE is accepted.
C9_Witness ==
    /\ pc = "validated"
    /\ span_text = <<"O", "N", "E">>
    /\ lab = "PHONE"
    /\ accepted = TRUE

----------------------------------------------------------------------------
(* The loops over the lines of the input: PIIDataset.__init__              *)
(* (dataset.py:14-73) and main (predict.py:107-149).  A line is a record   *)
(* [kind, id]: a well-formed record with its id, an empty line, or a line  *)
(* json.loads cannot parse.  The work done for a well-formed record is     *)
(* SpecDataset and SpecDecode/SpecFilter; here it yields the record's id.  *)

LineSet == {[kind |-> "record", id |-> "u1"], [kind |-> "record", id |-> "u2"],
            [kind |-> "empty", id |-> None], [kind |-> "malformed", id |-> None]}

RECURSIVE FilesOf(_)
FilesOf(k) ==
    IF k = 0 THEN {<<>>}
    ELSE FilesOf(k - 1) \cup {Append(f, l) : f \in FilesOf(k - 1), l \in LineSet}

\* The file is open and no line has been read; pc tells which loop runs.
LinesInit ==
    /\ pc \in {"load", "predict"}
    /\ lines \in FilesOf(MaxLines)
    /\ line_no = 0
    /\ items = <<>>
    /\ results = {}
    /\ text = <<>>
    /\ offsets = <<>>
    /\ DataIdle
    /\ PredIdle
    /\ DecIdle
    /\ CollIdle

\* dataset.py:15-73  one iteration: an empty line is skipped, json.loads
\* raises on a malformed one and the exception leaves __init__
LoadLine ==
    /\ pc = "load"
    /\ line_no < Len(lines)
    /\ line_no' = line_no + 1
    /\ LET line == lines[line_no + 1] IN
        IF line.kind = "empty" THEN pc' = pc /\ items' = items
        ELSE IF line.kind = "malformed" THEN pc' = "raised" /\ items' = items
        ELSE pc' = pc /\ items' = Append(items, line.id)
    /\ UNCHANGED <<lines, results, text, offsets, decVars, dataVars, predVars,
                   collVars>>

\* dataset.py:15  the file is exhausted
LoadDone ==
    /\ pc = "load"
    /\ line_no = Len(lines)
    /\ pc' = "loaded"
    /\ UNCHANGED <<lineVars, text, offsets, decVars, dataVars, predVars, collVars>>

\* predict.py:108-145  one iteration: json.loads is called on every line,
\* so it raises on an empty line as on a malformed one, and nothing
\* catches the exception
PredictLine ==
    /\ pc = "predict"
    /\ line_no < Len(lines)
    /\ line_no' = line_no + 1
    /\ LET line == lines[line_no + 1] IN
        IF line.kind = "record"
        THEN pc' = pc /\ results' = results \cup {line.id}
        ELSE pc' = "raised" /\ results' = results
    /\ UNCHANGED <<lines, items, text, offsets, decVars, dataVars, predVars,
                   collVars>>

\* predict.py:147-151  the results are written after the last line
WriteResults ==
    /\ pc = "predict"
    /\ line_no = Len(lines)
    /\ pc' = "written"
    /\ UNCHANGED <<lineVars, text, offsets, decVars, dataVars, predVars, collVars>>

LinesNext == LoadLine \/ LoadDone \/ PredictLine \/ WriteResults

SpecLines == LinesInit /\ [][LinesNext]_vars

\* The ids of the well-formed records of the file.
RecordIds == {lines[i].id : i \in {k \in 1..Len(lines) : lines[k].kind = "record"}}

\* What the caller has when the run has ended: the items of the dataset,
\* the written results, or nothing when an exception ended the run.
Delivered ==
    IF pc = "loaded" THEN {items[i] : i \in 1..Len(items)}
    ELSE IF pc = "written" THEN results
    ELSE {}

\* C11 as stated (checked under SpecLines): one bad record never aborts
\* the run: when the run has ended, every well-formed record of the input
\* has its item (dataset loading) or its entry in the written results
\* (prediction), whatever empty or malformed lines the input holds.
C11_BadRecordIsolated ==
    pc \in {"loaded", "written", "raised"} => RecordIds = Delivered

----------------------------------------------------------------------------
(* Claims about the order of character tagging, checked under SpecTag.     *)

\* The valid annotations consumed so far that cover character position p.
Covering(p) ==
    {k \in 1..Len(entities) :
        ValidAnn(entities[k]) /\ entities[k][1] <= p /\ p < entities[k][2]}

\* C12: at every character position the tag is the one written by the last
\* valid annotation of the list that covers it (B-label at that
\* annotation's start, I-label elsewhere in it); a position covered by no
\* valid annotation is O.
C12_LastAnnotationWins ==
    \A p \in 0..(Len(text) - 1) :
        IF Covering(p) = {} THEN char_tags[p + 1] = "O"
        ELSE LET k == CHOOSE x \in Covering(p) : \A y \in Covering(p) : y <= x
                 a == entities[k]
             IN char_tags[p + 1] =
                    (IF p = a[1] THEN "B-" \o a[3] ELSE "I-" \o a[3])

\* Two valid annotations overlap at position 1: the tag there is the B of
\* the later one, the tag at position 0 is still that of the earlier one.
C12_Witness ==
    /\ entities = <<(<<0, 2, "PHONE">>), (<<1, 2, "EMAIL">>)>>
    /\ char_tags = <<"B-PHONE", "B-EMAIL">>

----------------------------------------------------------------------------
(* Claims about the transitions of the decoder, checked under SpecDecode.  *)

\* A step of the loop that consumed a token of the text (start < end).
TextStep ==
    /\ Len(offsets') = Len(offsets) + 1
    /\ LastOffset[1] < LastOffset[2]

\* spans after the open span, if any, has been emitted.
WithOpenEmitted ==
    IF current_label = None THEN spans
    ELSE Append(spans, <<current_start, current_end, current_label>>)

\* C13: a B-T token ends the open span, also one of the same type T, emits
\* it and opens a span of type T at the token's own offsets; an O token
\* emits the open span and returns to Idle; so two consecutive B-T tokens
\* give two spans of type T, never one merged span.
C13_BClosesOCloses ==
    /\ [][\A T \in TypeSet : (TextStep /\ LastLabel = "B-" \o T) =>
            /\ spans' = WithOpenEmitted
            /\ current_label' = T
            /\ current_start' = LastOffset[1]
            /\ current_end' = LastOffset[2]]_vars
    /\ [][(TextStep /\ LastLabel = "O") =>
            /\ spans' = WithOpenEmitted
            /\ current_label' = None]_vars
    /\ [](\A T \in TypeSet :
            (/\ pc = "returned"
             /\ Len(offsets) = 2
             /\ \A i \in 1..2 : offsets[i][1] < offsets[i][2]
             /\ label_ids = <<IdOf("B-" \o T), IdOf("B-" \o T)>>)
            => spans = <<(<<offsets[1][1], offsets[1][2], T>>),
                         (<<offsets[2][1], offsets[2][2], T>>)>>)

\* Two adjacent B-PHONE tokens have been decoded into two PHONE spans.
C13_Witness ==
    /\ pc = "returned"
    /\ offsets = <<(<<0, 1>>), (<<1, 2>>)>>
    /\ label_ids = <<IdOf("B-PHONE"), IdOf("B-PHONE")>>
    /\ spans = <<(<<0, 1, "PHONE">>), (<<1, 2, "PHONE">>)>>

----------------------------------------------------------------------------
(* Claims about what the decoder keeps, checked under SpecDecode.          *)

\* Token i is a token of the text (start < end) predicted B-T or I-T.
Labelled(i) ==
    offsets[i][1] < offsets[i][2] /\ ID2LABEL_get(label_ids[i]) # "O"

PredictedType(i) == SplitLabel(ID2LABEL_get(label_ids[i]))[2]

\* Token i lies inside span k.
Inside(i, k) ==
    spans[k][1] <= offsets[i][1] /\ offsets[i][2] <= spans[k][2]

\* C14 as stated: for a stream with non-decreasing token offsets, every
\* non-structural token predicted B-T or I-T lies inside exactly one emitted
\* span, of type T; every emitted span has a non-O type, starts at the start
\* of such a token and ends at the end of such a token; a stream whose
\* labels are all O or unknown ids yields the empty list.
C14_NothingLostNothingInvented ==
    (pc = "returned" /\ Ascending(Kept(offsets))) =>
        /\ \A i \in 1..Len(offsets) : Labelled(i) =>
              /\ Cardinality({k \in 1..Len(spans) : Inside(i, k)}) = 1
              /\ \A k \in 1..Len(spans) : Inside(i, k) => spans[k][3] = PredictedType(i)
        /\ \A k \in 1..Len(spans) :
              /\ spans[k][3] \in TypeSet
              /\ \E i \in 1..Len(offsets) : Labelled(i) /\ offsets[i][1] = spans[k][1]
              /\ \E j \in 1..Len(offsets) : Labelled(j) /\ offsets[j][2] = spans[k][2]
        /\ (\A i \in 1..Len(offsets) : ID2LABEL_get(label_ids[i]) = "O") => spans = <<>>

====
